---- MODULE Spec2Model ----
(***************************************************************************)
(* Model of the notebook tooling scripts (scripts/utils.py,                *)
(* scripts/lint_ts_cells.py, scripts/compile_ts_cells.py and               *)
(* scripts/format_ts_cells.py).                                            *)
(*                                                                         *)
(* Texts are sequences of one-character strings, so that joining,          *)
(* splitting, line counting, stripping and parsing are computed character  *)
(* by character, as Python computes them.                                  *)
(*                                                                         *)
(* Three specifications share the operators:                               *)
(*   SpecRemap  - the text pipeline of lint_cells: join the cells, remap a *)
(*                global line, read the file back and split it;            *)
(*   SpecStream - execute() streaming the child's output into the loop of  *)
(*                lint_cells / compile_cells;                              *)
(*   SpecRun    - main(), process_path() and process_notebook() of the     *)
(*                three scripts over a small file system.                  *)
(***************************************************************************)
EXTENDS Integers, Sequences, FiniteSets, TLC

VARIABLES
    script,       \* "lint", "compile" or "format": which script runs
    check,        \* the --check flag
    pc,           \* position of the running script
    codes,        \* lint_cells / compile_cells: the list of cell texts
    tmp_file,     \* content of the temporary .ts file
    global_line,  \* parsed_line.line of the diagnostic being remapped (0: none yet)
    cell_index,   \* first component of find_cell_from_global_line's result
    start_row,    \* second component of find_cell_from_global_line's result
    row,          \* parsed_line.line - start_row
    fixed_cells,  \* fixed_code.split(separator)
    return_code,  \* return_code of lint_cells / compile_cells
    emitted,      \* every line the child process has written to its stdout, in order
    pipe,         \* the lines written and not yet read by execute
    child_done,   \* the child has closed its stdout and exited
    exit_code,    \* the child's exit status
    yielded,      \* every line execute has yielded, in order
    raised,       \* execute has raised CalledProcessError
    out,          \* what the script has printed to stdout, in order
    paths,        \* main: args.paths
    fs,           \* the notebook files on disk, by file name
    path_idx,     \* main: position in paths of the path being processed
    nb_idx,       \* process_path: notebooks of the current path already processed
    path_results, \* process_path: results
    results,      \* main: results
    exit_status,  \* exit status of the process (-1 while it runs)
    invalid,      \* positions in paths reported as "Invalid path" on stderr
    differed,     \* some processed notebook had a code cell whose tool output
                  \* differs from its stored text
    log           \* replacements of a cell's source and writes of a notebook
                  \* file, in order (bookkeeping of the model)

cellsVars == <<codes, tmp_file, global_line, cell_index, start_row, row,
               fixed_cells, return_code>>

childVars == <<emitted, pipe, child_done, exit_code, yielded, raised, out>>

runVars == <<paths, fs, path_idx, nb_idx, path_results, results, exit_status,
             invalid, differed, log>>

vars == <<script, check, pc, cellsVars, childVars, runVars>>

(***************************************************************************)
(* Bounds                                                                  *)
(***************************************************************************)
MaxCells == 3
MaxGlobalLine == 13

(***************************************************************************)
(* Characters and texts                                                    *)
(***************************************************************************)
NL == <<"\n">>
CR == <<"\r">>
A == <<"a">>
B == <<"b">>

\* The comment line of the separator, "// --- CELL SPLIT ---".
Marker == <<"/", "/", " ", "-", "-", "-", " ", "C", "E", "L", "L", " ",
            "S", "P", "L", "I", "T", " ", "-", "-", "-">>

\* separator = "\n\n// --- CELL SPLIT ---\n\n"
separator == NL \o NL \o Marker \o NL \o NL

\* The width find_cell_from_global_line adds per cell.
SeparatorWidth == 4

Min(S) == CHOOSE x \in S : \A y \in S : x <= y

\* Positions at which a line break ends: "\n", or a "\r" that no "\n" follows.
LineEnds(s) ==
    { e \in 1..Len(s) :
        \/ s[e] = "\n"
        \/ (s[e] = "\r" /\ ~(e < Len(s) /\ s[e + 1] = "\n")) }

\* str.splitlines(keepends) from position p: "\n", "\r" and "\r\n" end a
\* line; a text that ends with a line break has no empty last line.
RECURSIVE LinesFrom(_, _, _)
LinesFrom(s, p, keepends) ==
    IF p > Len(s) THEN <<>>
    ELSE LET ends == { e \in LineEnds(s) : e >= p }
         IN  IF ends = {} THEN <<SubSeq(s, p, Len(s))>>
             ELSE LET last == Min(ends)
                      width == IF s[last] = "\n" /\ last > p /\ s[last - 1] = "\r"
                               THEN 2 ELSE 1
                  IN  <<SubSeq(s, p, IF keepends THEN last ELSE last - width)>>
                      \o LinesFrom(s, last + 1, keepends)

splitlines(s) == LinesFrom(s, 1, FALSE)

splitlines_keepends(s) == LinesFrom(s, 1, TRUE)

\* "".join(parts)
RECURSIVE Concat(_)
Concat(parts) ==
    IF parts = <<>> THEN <<>> ELSE Head(parts) \o Concat(Tail(parts))

\* sep.join(parts)
RECURSIVE join(_, _)
join(sep, parts) ==
    IF parts = <<>> THEN <<>>
    ELSE IF Len(parts) = 1 THEN parts[1]
    ELSE parts[1] \o sep \o join(sep, Tail(parts))

\* s.split(sep) from position p: cut at the leftmost occurrence of sep, then
\* go on after it.
RECURSIVE SplitFrom(_, _, _)
SplitFrom(s, sep, p) ==
    LET hits == { h \in p..(Len(s) - Len(sep) + 1) :
                    SubSeq(s, h, h + Len(sep) - 1) = sep }
    IN  IF hits = {} THEN <<SubSeq(s, p, Len(s))>>
        ELSE <<SubSeq(s, p, Min(hits) - 1)>>
             \o SplitFrom(s, sep, Min(hits) + Len(sep))

split(s, sep) == SplitFrom(s, sep, 1)

\* open(path, "r").read(): text mode with universal newlines turns "\r\n"
\* and "\r" into "\n".
read_text(s) ==
    LET kept == SelectSeq([n \in 1..Len(s) |-> n],
                          LAMBDA n : ~(s[n] = "\r" /\ n < Len(s) /\ s[n + 1] = "\n"))
    IN  [m \in 1..Len(kept) |-> IF s[kept[m]] = "\r" THEN "\n" ELSE s[kept[m]]]

(***************************************************************************)
(* lint_cells / compile_cells: the joined document and the remapping       *)
(***************************************************************************)
joined_code(cs) == join(separator, cs)

code_lines(cs) == splitlines(joined_code(cs))

\* Mutant of CellSpan: the separator counted as the three lines it adds after
\* an unterminated cell.
CellSpan_Width3(code) == Len(splitlines(code)) + 3

\* len(code.splitlines()) + 4

CellSpan(code) == Len(splitlines(code)) + SeparatorWidth

\* The loop of find_cell_from_global_line from cell i (1-based here, the
\* returned index is the 0-based one of enumerate) with line_count lines
\* counted so far.
RECURSIVE FindCellLoop(_, _, _, _)
FindCellLoop(cs, g, i, line_count) ==
    IF i > Len(cs) THEN <<-1, -1>>
    ELSE LET counted == line_count + CellSpan(cs[i])
         IN  IF g < counted
             THEN <<i - 1, counted - CellSpan(cs[i])>>
             ELSE FindCellLoop(cs, g, i + 1, counted)

find_cell_from_global_line(cs, g) == FindCellLoop(cs, g, 1, 0)

(***************************************************************************)
(* parse_lint_output: the two diagnostic grammars                          *)
(***************************************************************************)
Max(S) == CHOOSE x \in S : \A y \in S : x >= y

DigitChars == <<"0", "1", "2", "3", "4", "5", "6", "7", "8", "9">>

\* \s of the regular expressions and the whitespace str.strip() removes.
IsSpace(c) == c \in {" ", "\n", "\r", "\t"}

\* \d
IsDigit(c) == \E d \in 1..10 : DigitChars[d] = c

DigitValue(c) == (CHOOSE d \in 1..10 : DigitChars[d] = c) - 1

\* int(text) of a run of decimal digits
RECURSIVE int(_)
int(ds) ==
    IF ds = <<>> THEN 0
    ELSE 10 * int(SubSeq(ds, 1, Len(ds) - 1)) + DigitValue(ds[Len(ds)])

\* First position at or after p that \s* (greedy) does not consume.
AfterSpaces(s, p) ==
    Min({ q \in p..(Len(s) + 1) : q = Len(s) + 1 \/ ~IsSpace(s[q]) })

\* First position at or after p that \d* (greedy) does not consume.
AfterDigits(s, p) ==
    Min({ q \in p..(Len(s) + 1) : q = Len(s) + 1 \/ ~IsDigit(s[q]) })

\* First position at or after p that .* does not consume ("." is any
\* character but "\n").
AfterDots(s, p) ==
    Min({ q \in p..(Len(s) + 1) : q = Len(s) + 1 \/ s[q] = "\n" })

StartsWith(s, p, w) ==
    /\ p + Len(w) - 1 <= Len(s)
    /\ SubSeq(s, p, p + Len(w) - 1) = w

ErrorWord == <<"e", "r", "r", "o", "r">>

NoResult == [line |-> 0, column |-> 0, message |-> <<>>, rule_id |-> <<>>]

\* str.strip()
strip(s) ==
    LET solid == { q \in 1..Len(s) : ~IsSpace(s[q]) }
    IN  IF solid = {} THEN <<>> ELSE SubSeq(s, Min(solid), Max(solid))

\* lint_ts_cells.parse_lint_output:
\* re.match(r"^\s*(\d+):(\d+)\s+error\s+(.*)", line)
parse_lint_output(s) ==
    LET p1 == AfterSpaces(s, 1)
        p2 == AfterDigits(s, p1)
        p3 == p2 + 1
        p4 == AfterDigits(s, p3)
        p5 == AfterSpaces(s, p4)
        p6 == p5 + Len(ErrorWord)
        p7 == AfterSpaces(s, p6)
    IN  IF /\ p2 > p1
           /\ p2 <= Len(s)
           /\ s[p2] = ":"
           /\ p4 > p3
           /\ p5 > p4
           /\ StartsWith(s, p5, ErrorWord)
           /\ p7 > p6
        THEN [line |-> int(SubSeq(s, p1, p2 - 1)),
              column |-> int(SubSeq(s, p3, p4 - 1)),
              message |-> SubSeq(s, p7, AfterDots(s, p7) - 1),
              rule_id |-> <<>>]
        ELSE NoResult

\* The rest of the type-checker grammar once (\S+) has stopped before the
\* "(" at position q: \((\d+),(\d+)\):\s+error\s+(.*?):\s+(.*)
\* NoResult when it does not match there.
CompileMatchAt(s, q) ==
    LET d1 == q + 1
        d2 == AfterDigits(s, d1)
        d3 == d2 + 1
        d4 == AfterDigits(s, d3)
        w1 == d4 + 2
        w2 == AfterSpaces(s, w1)
        e1 == w2 + Len(ErrorWord)
        e2 == AfterSpaces(s, e1)
        colons == { r \in e2..(Len(s) - 1) :
                      /\ s[r] = ":"
                      /\ IsSpace(s[r + 1])
                      /\ \A t \in e2..(r - 1) : s[t] # "\n" }
        m1 == AfterSpaces(s, Min(colons) + 1)
    IN  IF /\ d2 > d1
           /\ d2 <= Len(s)
           /\ s[d2] = ","
           /\ d4 > d3
           /\ StartsWith(s, d4, <<")", ":">>)
           /\ w2 > w1
           /\ StartsWith(s, w2, ErrorWord)
           /\ e2 > e1
           /\ colons # {}
        THEN [line |-> int(SubSeq(s, d1, d2 - 1)),
              column |-> int(SubSeq(s, d3, d4 - 1)),
              message |-> SubSeq(s, m1, AfterDots(s, m1) - 1),
              rule_id |-> SubSeq(s, e2, Min(colons) - 1)]
        ELSE NoResult

\* compile_ts_cells.parse_lint_output:
\* re.match(r"^\s*(\S+)\((\d+),(\d+)\):\s+error\s+(.*?):\s+(.*)", line)
\* (\S+) is greedy: it stops before the last "(" after which the rest matches.
compile_parse_lint_output(s) ==
    LET p1 == AfterSpaces(s, 1)
        stops == { q \in (p1 + 1)..Len(s) :
                     /\ s[q] = "("
                     /\ \A t \in p1..(q - 1) : ~IsSpace(s[t])
                     /\ CompileMatchAt(s, q) # NoResult }
    IN  IF stops = {} THEN NoResult ELSE CompileMatchAt(s, Max(stops))

\* if parsed_line.line and parsed_line.column
IsDiagnostic(parsed) == parsed.line # 0 /\ parsed.column # 0

(***************************************************************************)
(* SpecRemap: the text pipeline of lint_cells on cell texts that exercise  *)
(* terminated and unterminated last lines, blank lines, empty cells and    *)
(* the separator's own text.                                               *)
(***************************************************************************)
CellTexts ==
    { <<>>,
      A,
      A \o NL,
      A \o NL \o B,
      A \o NL \o NL \o B \o NL,
      A \o CR \o NL \o B,
      NL \o NL \o Marker,
      A \o separator \o B }

SeqsUpTo(S, n) == UNION { [1..k -> S] : k \in 1..n }

\* No child process.
IdleChild ==
    /\ emitted = <<>>
    /\ pipe = <<>>
    /\ child_done = FALSE
    /\ exit_code = 0
    /\ yielded = <<>>
    /\ raised = FALSE
    /\ out = <<>>

\* No driver.
IdleRun ==
    /\ paths = <<>>
    /\ fs = <<>>
    /\ path_idx = 0
    /\ nb_idx = 0
    /\ path_results = <<>>
    /\ results = <<>>
    /\ exit_status = -1
    /\ invalid = {}
    /\ differed = FALSE
    /\ log = <<>>

idleRemap == <<script, check, return_code, childVars, runVars>>

InitRemap ==
    /\ script = "lint"
    /\ check = FALSE
    /\ pc = "start"
    /\ codes \in SeqsUpTo(CellTexts, MaxCells)
    /\ tmp_file = <<>>
    /\ global_line = 0
    /\ cell_index = 0
    /\ start_row = 0
    /\ row = 0
    /\ fixed_cells = <<>>
    /\ return_code = 0
    /\ IdleChild
    /\ IdleRun

\* tmp.write(joined_code)
WriteTemp ==
    /\ pc = "start"
    /\ tmp_file' = joined_code(codes)
    /\ pc' = "written"
    /\ UNCHANGED <<codes, global_line, cell_index, start_row, row, fixed_cells>>
    /\ UNCHANGED idleRemap

\* cell_index, start_row = find_cell_from_global_line(parsed_line.line)
\* row = parsed_line.line - start_row
Remap(g) ==
    /\ pc = "written"
    /\ LET found == find_cell_from_global_line(codes, g)
       IN  /\ global_line' = g
           /\ cell_index' = found[1]
           /\ start_row' = found[2]
           /\ row' = g - found[2]
    /\ pc' = "remapped"
    /\ UNCHANGED <<codes, tmp_file, fixed_cells>>
    /\ UNCHANGED idleRemap

\* fixed_code = f.read(); fixed_cells = fixed_code.split(separator)
ReadBack ==
    /\ pc \in {"written", "remapped"}
    /\ fixed_cells' = split(read_text(tmp_file), separator)
    /\ pc' = "returned"
    /\ UNCHANGED <<codes, tmp_file, global_line, cell_index, start_row, row>>
    /\ UNCHANGED idleRemap

NextRemap ==
    \/ WriteTemp
    \/ \E g \in 1..MaxGlobalLine : Remap(g)
    \/ ReadBack

SpecRemap == InitRemap /\ [][NextRemap]_vars

(***************************************************************************)
(* Properties of the text pipeline                                         *)
(***************************************************************************)
\* Line count of each cell, in cell order.
RECURSIVE LineCounts(_)
LineCounts(cs) ==
    IF cs = <<>> THEN <<>>
    ELSE <<Len(splitlines(Head(cs)))>> \o LineCounts(Tail(cs))

\* Sum over the first n cells of (line count + 4).
RECURSIVE OffsetAfter(_, _)
OffsetAfter(cs, n) ==
    IF n = 0 THEN 0 ELSE OffsetAfter(cs, n - 1) + Len(splitlines(cs[n])) + 4

\* The 1-based line of the joined document on which the text of cell k
\* (0-based) begins: one past the lines of everything joined before it.
FirstContentLine(cs, k) ==
    IF k = 0 THEN 1
    ELSE Len(splitlines(join(separator, SubSeq(cs, 1, k)) \o separator)) + 1

\* C1: the global line on which cell k's first content line sits in the
\* joined document is remapped to cell k, row 1, whether or not the cells
\* end with a line terminator.
C1_FirstLineRemapsToRowOne ==
    pc = "remapped" =>
        \A k \in 0..(Len(codes) - 1) :
            (codes[k + 1] # <<>> /\ global_line = FirstContentLine(codes, k)) =>
                (cell_index = k /\ row = 1)

\* C2: find_cell_from_global_line(g) returns the first cell k with
\* g < sum over i <= k of (lines(C_i) + 4), together with the sum over i < k
\* of (lines(C_i) + 4); for cells of 2, 1 and 3 lines the offsets are 0, 6
\* and 11 and line 8 is cell 1, row 2.
C2_OffsetIsPrefixSum ==
    pc = "remapped" =>
        /\ \A k \in 0..(Len(codes) - 1) :
              ( /\ global_line < OffsetAfter(codes, k + 1)
                /\ \A j \in 0..(k - 1) : ~(global_line < OffsetAfter(codes, j + 1)) )
              => (cell_index = k /\ start_row = OffsetAfter(codes, k))
        /\ LineCounts(codes) = <<2, 1, 3>> =>
              /\ global_line \in 1..5 => (cell_index = 0 /\ start_row = 0)
              /\ global_line \in 6..10 => (cell_index = 1 /\ start_row = 6)
              /\ global_line \in 11..13 => (cell_index = 2 /\ start_row = 11)
              /\ global_line = 8 => (cell_index = 1 /\ row = 2)

\* Witness of C2: three cells of 2, 1 and 3 lines, global line 8.
C2_Witness ==
    /\ pc = "remapped"
    /\ LineCounts(codes) = <<2, 1, 3>>
    /\ global_line = 8
    /\ cell_index = 1
    /\ row = 2

\* C5: with the file left unchanged, splitting what is read back on the
\* separator yields exactly the original cell sources, one segment per cell,
\* for all cell contents.
C5_SplitRoundTrip ==
    pc = "returned" =>
        /\ Len(fixed_cells) = Len(codes)
        /\ \A j \in 1..Len(codes) : fixed_cells[j] = codes[j]

(***************************************************************************)
(* SpecStream: execute() streaming the child's stdout into the loop of     *)
(* lint_cells / compile_cells.  The child process (the external linter or  *)
(* type checker) runs concurrently: it writes lines, may rewrite the       *)
(* temporary file, and exits with a status.                                *)
(***************************************************************************)
MaxStreamCells == 2
MaxOutput == 2

StreamTexts == { A, A \o NL \o B \o NL }

\* Global line numbers the tool reports.
DiagLineNumbers == {1, 6, 12}

\* Decimal digits of n.
RECURSIVE Digits(_)
Digits(n) ==
    IF n < 10 THEN <<DigitChars[n + 1]>>
    ELSE Digits(n \div 10) \o <<DigitChars[(n % 10) + 1]>>

\* A linter report line, "  <g>:<c>  error  m\n".
EslintLine(g, c) ==
    <<" ", " ">> \o Digits(g) \o <<":">> \o Digits(c) \o <<" ", " ">>
    \o ErrorWord \o <<" ", " ", "m">> \o NL

\* A type-checker report line, "t.ts(<g>,<c>): error T1: m\n".
TscLine(g, c) ==
    <<"t", ".", "t", "s", "(">> \o Digits(g) \o <<",">> \o Digits(c)
    \o <<")", ":", " ">> \o ErrorWord \o <<" ", "T", "1", ":", " ", "m">> \o NL

\* "1 problem\n": a linter line outside the grammar.
SummaryLine == <<"1", " ", "p", "r", "o", "b", "l", "e", "m">> \o NL

\* "Found 1 error.\n": a type-checker line outside the grammar.
FoundLine ==
    <<"F", "o", "u", "n", "d", " ", "1", " ">> \o ErrorWord \o <<".">> \o NL

ToolLines(scr) ==
    IF scr = "lint"
    THEN { EslintLine(g, 1) : g \in DiagLineNumbers }
         \cup { EslintLine(1, 0), SummaryLine }
    ELSE { TscLine(g, 1) : g \in DiagLineNumbers }
         \cup { TscLine(1, 0), FoundLine }

\* What the tool may leave in the temporary file: the text as written, every
\* cell fixed (a ";" added where there is none), or the text with the
\* separators reformatted away.
FixCell(code) ==
    IF code # <<>> /\ code[Len(code)] = ";" THEN code ELSE code \o <<";">>

RECURSIVE FixAll(_)
FixAll(cs) == IF cs = <<>> THEN <<>> ELSE <<FixCell(Head(cs))>> \o FixAll(Tail(cs))

ToolRewrites(cs) ==
    { joined_code(cs), joined_code(FixAll(cs)), join(NL, cs) }

ExitCodes == {0, 1}

\* One printed line.  "from" is the number of the yielded line that caused
\* it (bookkeeping of the model, not printed).
CellRecord(parsed, found, n) ==
    [kind |-> "cell", cell |-> found[1] + 1, line |-> parsed.line - found[2],
     column |-> parsed.column, text |-> parsed.message, from |-> n]

TextRecord(k, txt, n) ==
    [kind |-> k, cell |-> 0, line |-> 0, column |-> 0, text |-> txt, from |-> n]

InitStream ==
    /\ script \in {"lint", "compile"}
    /\ check \in BOOLEAN
    /\ (script = "compile" => check = FALSE)
    /\ pc = "start"
    /\ codes \in SeqsUpTo(StreamTexts, MaxStreamCells)
    /\ tmp_file = <<>>
    /\ global_line = 0
    /\ cell_index = 0
    /\ start_row = 0
    /\ row = 0
    /\ fixed_cells = <<>>
    /\ return_code = 0
    /\ IdleChild
    /\ IdleRun

\* tmp.write(joined_code); execute(args) spawns the child (subprocess.Popen).
StartTool ==
    /\ pc = "start"
    /\ tmp_file' = joined_code(codes)
    /\ pc' = "streaming"
    /\ UNCHANGED <<script, check, codes, global_line, cell_index, start_row, row,
                   fixed_cells, return_code, childVars>>
    /\ UNCHANGED runVars

\* The child writes one more line to its stdout.
ChildEmit(l) ==
    /\ pc = "streaming"
    /\ ~child_done
    /\ Len(emitted) < MaxOutput
    /\ emitted' = Append(emitted, l)
    /\ pipe' = Append(pipe, l)
    /\ UNCHANGED <<script, check, pc, codes, tmp_file, global_line, cell_index,
                   start_row, row, fixed_cells, return_code, child_done,
                   exit_code, yielded, raised, out>>
    /\ UNCHANGED runVars

\* The child closes its stdout and exits with status code, leaving text in
\* the temporary file.
ChildExit(code, text) ==
    /\ pc = "streaming"
    /\ ~child_done
    /\ child_done' = TRUE
    /\ exit_code' = code
    /\ tmp_file' = text
    /\ UNCHANGED <<script, check, pc, codes, global_line, cell_index, start_row,
                   row, fixed_cells, return_code, emitted, pipe, yielded, raised,
                   out>>
    /\ UNCHANGED runVars

\* popen.stdout.readline() returns a line.
ReadlineLine == pipe # <<>>

\* Mutant of ReadlineEOF: the end of the stream taken from the child's exit,
\* with written lines still unread.
ReadlineEOF_OnExit == child_done

\* popen.stdout.readline() returns "": nothing left to read and the child
\* has closed its stdout.
ReadlineEOF == pipe = <<>> /\ child_done

\* Body of the loop of lint_cells for the line execute yields next.
LintLoopStep ==
    /\ script = "lint"
    /\ pc = "streaming"
    /\ ReadlineLine
    /\ LET l == Head(pipe)
           n == Len(yielded) + 1
           parsed == parse_lint_output(l)
           found == find_cell_from_global_line(codes, parsed.line)
       IN  /\ pipe' = Tail(pipe)
           /\ yielded' = Append(yielded, l)
           /\ IF IsDiagnostic(parsed)
              THEN /\ global_line' = parsed.line
                   /\ cell_index' = found[1]
                   /\ start_row' = found[2]
                   /\ row' = parsed.line - found[2]
                   /\ IF parsed.line <= Len(code_lines(codes))
                      THEN /\ out' = out \o <<CellRecord(parsed, found, n),
                                              TextRecord("source",
                                                  code_lines(codes)[parsed.line], n)>>
                           /\ pc' = pc
                      ELSE \* code_lines[parsed_line.line - 1] raises IndexError
                           /\ out' = Append(out, CellRecord(parsed, found, n))
                           /\ pc' = "crashed"
              ELSE /\ out' = Append(out, TextRecord("passthrough", strip(l), n))
                   /\ UNCHANGED <<pc, global_line, cell_index, start_row, row>>
    /\ UNCHANGED <<script, check, codes, tmp_file, fixed_cells, return_code,
                   emitted, child_done, exit_code, raised>>
    /\ UNCHANGED runVars

\* Body of the loop of compile_cells for the line execute yields next.
CompileLoopStep ==
    /\ script = "compile"
    /\ pc = "streaming"
    /\ ReadlineLine
    /\ LET l == Head(pipe)
           n == Len(yielded) + 1
           parsed == compile_parse_lint_output(strip(l))
           found == find_cell_from_global_line(codes, parsed.line)
       IN  /\ pipe' = Tail(pipe)
           /\ yielded' = Append(yielded, l)
           /\ IF IsDiagnostic(parsed)
              THEN /\ global_line' = parsed.line
                   /\ cell_index' = found[1]
                   /\ start_row' = found[2]
                   /\ row' = parsed.line - found[2]
                   /\ IF parsed.line <= Len(code_lines(codes))
                      THEN /\ out' = out \o <<TextRecord("parsed", parsed.message, n),
                                              CellRecord(parsed, found, n),
                                              TextRecord("source",
                                                  code_lines(codes)[parsed.line] \o NL, n)>>
                           /\ pc' = pc
                      ELSE \* code_lines[parsed_line.line - 1] raises IndexError
                           /\ out' = out \o <<TextRecord("parsed", parsed.message, n),
                                              CellRecord(parsed, found, n)>>
                           /\ pc' = "crashed"
              ELSE UNCHANGED <<out, pc, global_line, cell_index, start_row, row>>
    /\ UNCHANGED <<script, check, codes, tmp_file, fixed_cells, return_code,
                   emitted, child_done, exit_code, raised>>
    /\ UNCHANGED runVars

\* The stream ends: return_code = popen.wait(); a non-zero code is raised as
\* CalledProcessError, which lint_cells / compile_cells catch:
\* return_code = e.returncode.
StreamEnd ==
    /\ pc = "streaming"
    /\ ReadlineEOF
    /\ raised' = (exit_code # 0)
    /\ return_code' = (IF exit_code # 0 THEN exit_code ELSE 0)
    /\ pc' = "after_loop"
    /\ UNCHANGED <<script, check, codes, tmp_file, global_line, cell_index,
                   start_row, row, fixed_cells, emitted, pipe, child_done,
                   exit_code, yielded, out>>
    /\ UNCHANGED runVars

\* lint_cells: fixed_code = f.read(); return fixed_code.split(separator), return_code
LintReturn ==
    /\ script = "lint"
    /\ pc = "after_loop"
    /\ fixed_cells' = split(read_text(tmp_file), separator)
    /\ pc' = "returned"
    /\ UNCHANGED <<script, check, codes, tmp_file, global_line, cell_index,
                   start_row, row, return_code, childVars>>
    /\ UNCHANGED runVars

\* compile_cells: return return_code
CompileReturn ==
    /\ script = "compile"
    /\ pc = "after_loop"
    /\ pc' = "returned"
    /\ UNCHANGED <<script, check, codes, tmp_file, global_line, cell_index,
                   start_row, row, fixed_cells, return_code, childVars>>
    /\ UNCHANGED runVars

NextStream ==
    \/ StartTool
    \/ \E l \in ToolLines(script) : ChildEmit(l)
    \/ \E code \in ExitCodes, text \in ToolRewrites(codes) : ChildExit(code, text)
    \/ LintLoopStep
    \/ CompileLoopStep
    \/ StreamEnd
    \/ LintReturn
    \/ CompileReturn

SpecStream == InitStream /\ [][NextStream]_vars

(***************************************************************************)
(* Properties of the streaming loop                                        *)
(***************************************************************************)
\* The parse the running script applies to a yielded line.
ParsedOf(l) ==
    IF script = "lint" THEN parse_lint_output(l)
    ELSE compile_parse_lint_output(strip(l))

\* A global line outside every cell's span, or past the last line of the
\* joined document.
Unresolvable(g) ==
    \/ find_cell_from_global_line(codes, g) = <<-1, -1>>
    \/ g > Len(code_lines(codes))

\* C8: a diagnostic whose global line is outside every cell's span, or past
\* the end of the joined document, is dropped: no "Cell ..." line is printed
\* for it and the run does not crash.
C8_UnresolvableDropped ==
    /\ pc # "crashed"
    /\ \A n \in 1..Len(yielded) :
          ( /\ IsDiagnostic(ParsedOf(yielded[n]))
            /\ Unresolvable(ParsedOf(yielded[n]).line) )
          => ~(\E m \in 1..Len(out) : out[m].kind = "cell" /\ out[m].from = n)

\* C9: every yielded line is either reported as a remapped diagnostic or
\* printed as passthrough text; a line outside the grammar (or with line 0 or
\* column 0) is always passed through, in the linter and the type-checker
\* path alike.
C9_NonDiagnosticPassedThrough ==
    \A n \in 1..Len(yielded) :
        IF IsDiagnostic(ParsedOf(yielded[n]))
        THEN \E m \in 1..Len(out) : out[m].kind = "cell" /\ out[m].from = n
        ELSE \E m \in 1..Len(out) :
                /\ out[m].kind = "passthrough"
                /\ out[m].from = n
                /\ out[m].text = strip(yielded[n])

\* C10: execute yields the child's lines once each and in order; the failure
\* is raised only once the stream is exhausted and only for a non-zero exit
\* code; so in lint_cells every line has been processed when the failure is
\* caught, and lint_cells still returns the split of the file read back
\* together with the exit code.
C10_FailureAfterStream ==
    /\ yielded \o pipe = emitted
    /\ raised =>
          /\ exit_code # 0
          /\ child_done
          /\ pipe = <<>>
          /\ yielded = emitted
          /\ return_code = exit_code
    /\ (pc \in {"after_loop", "returned"} /\ exit_code = 0) =>
          (~raised /\ return_code = 0)
    /\ (script = "lint" /\ raised) =>
          \A n \in 1..Len(emitted) : \E m \in 1..Len(out) : out[m].from = n
    /\ (script = "lint" /\ pc = "returned") =>
          /\ yielded = emitted
          /\ return_code = exit_code
          /\ fixed_cells = split(read_text(tmp_file), separator)

\* Witness of C10: the linter printed two lines, one of them a diagnostic,
\* and exited non-zero; lint_cells returned the segments and the code.
C10_Witness ==
    /\ script = "lint"
    /\ pc = "returned"
    /\ raised
    /\ return_code # 0
    /\ Len(yielded) = 2
    /\ \E n \in 1..2 : IsDiagnostic(parse_lint_output(yielded[n]))
    /\ Len(fixed_cells) = Len(codes)

(***************************************************************************)
(* SpecRun: main(), process_path() and process_notebook() of the three     *)
(* scripts over a small file system.  The external tool's outcome for a    *)
(* notebook is chosen when the notebook is processed.                      *)
(***************************************************************************)
MaxPaths == 2

\* A cell as the notebook stores it: its type and its source, a list of
\* lines with their terminators.
Cell(type, text) == [cell_type |-> type, source |-> splitlines_keepends(text)]

NbOneCell == [language |-> "typescript", cells |-> <<Cell("code", A)>>]

NbMixed ==
    [language |-> "typescript",
     cells |-> <<Cell("markdown", A), Cell("code", A \o NL \o B),
                 Cell("code", B \o <<";">>)>>]

NbPython == [language |-> "python", cells |-> <<Cell("code", A)>>]

NbNoCode == [language |-> "typescript", cells |-> <<Cell("markdown", A)>>]

FileSystems ==
    { [name \in {"x.ipynb", "y.ipynb"} |-> IF name = "x.ipynb" THEN x ELSE y] :
        x \in {NbOneCell, NbMixed, NbPython, NbNoCode}, y \in {NbOneCell, NbMixed} }

\* What a path argument can be: missing, an existing file that is no
\* notebook, a notebook file, or a directory with the notebooks rglob finds.
PathArgs ==
    { [kind |-> "missing", files |-> <<>>],
      [kind |-> "other", files |-> <<>>],
      [kind |-> "notebook", files |-> <<"x.ipynb">>],
      [kind |-> "notebook", files |-> <<"y.ipynb">>],
      [kind |-> "dir", files |-> <<"x.ipynb", "y.ipynb">>],
      [kind |-> "dir", files |-> <<>>] }

\* any(results)
any(bools) == \E n \in 1..Len(bools) : bools[n]

\* Positions (1-based) of the code cells of a notebook, in order.
CodePositions(nb) ==
    SelectSeq([n \in 1..Len(nb.cells) |-> n],
              LAMBDA n : nb.cells[n].cell_type = "code")

\* "".join(cell["source"]) of every code cell, in order.
CodeTexts(nb) ==
    [j \in 1..Len(CodePositions(nb)) |->
        Concat(nb.cells[CodePositions(nb)[j]].source)]

\* process_notebook returns False before running any tool: the declared
\* language is not typescript, or there is no code cell.
Skipped(nb) == nb.language # "typescript" \/ CodePositions(nb) = <<>>

\* nb["cells"][idx]["source"] = text.splitlines(keepends=True) for the code
\* cells numbered in J.
WithSources(nb, texts, J) ==
    [nb EXCEPT !.cells =
        [n \in 1..Len(nb.cells) |->
            IF \E j \in J : CodePositions(nb)[j] = n
            THEN [nb.cells[n] EXCEPT !.source =
                    splitlines_keepends(
                        texts[CHOOSE j \in J : CodePositions(nb)[j] = n])]
            ELSE nb.cells[n]]]

\* What process_notebook did: whether it raised, its return value, the
\* notebook in memory, the code cells whose source it replaced (and those
\* among them whose new text equals the old), whether it wrote the file, and
\* whether some cell's tool output differs from its stored text.
Outcome(crashed, changed, nb, replaced, same, written, differs) ==
    [crashed |-> crashed, changed |-> changed, nb |-> nb, replaced |-> replaced,
     replaced_same |-> same, written |-> written, differs |-> differs]

\* format_ts_cells.format_code: one formatter process per cell; a non-zero
\* exit keeps the cell's text, otherwise the formatter's stdout is taken.
format_code(cs, outputs) ==
    [j \in 1..Len(cs) |-> IF outputs[j] = "fixed" THEN FixCell(cs[j]) ELSE cs[j]]

\* format_ts_cells.process_notebook after the skips.
FormatNotebook(nb, chk, outputs) ==
    LET cs == CodeTexts(nb)
        formatted == format_code(cs, outputs)
        unformatted == { j \in 1..Len(cs) : formatted[j] # cs[j] }
        replaced == IF chk THEN {} ELSE unformatted
        changed == replaced # {}
    IN  Outcome(FALSE, changed, WithSources(nb, formatted, replaced), replaced,
                {}, ~chk /\ changed, unformatted # {})

\* lint_cells as process_notebook sees it: it raises IndexError when a
\* diagnostic's line g is past the joined document, and otherwise returns
\* the segments of the file read back and the exit code.
lint_cells(cs, g, rc, text) ==
    [crashed |-> g > Len(code_lines(cs)),
     fixed_cells |-> split(read_text(text), separator),
     return_code |-> rc]

\* Mutant of LintNotebook: the check flag ignored.
LintNotebook_IgnoreCheck(nb, chk, fixed, rc) ==
    LET cs == CodeTexts(nb)
        pairs == 1..(IF Len(fixed) < Len(cs) THEN Len(fixed) ELSE Len(cs))
        hit == { j \in pairs : fixed[j] # cs[j] \/ rc # 0 }
    IN  Outcome(FALSE, hit # {}, WithSources(nb, fixed, hit), hit,
                { j \in hit : fixed[j] = cs[j] }, hit # {},
                \E j \in pairs : fixed[j] # cs[j])

\* lint_ts_cells.process_notebook after lint_cells returned.
LintNotebook(nb, chk, fixed, rc) ==
    LET cs == CodeTexts(nb)
        pairs == 1..(IF Len(fixed) < Len(cs) THEN Len(fixed) ELSE Len(cs))
        hit == { j \in pairs : fixed[j] # cs[j] \/ rc # 0 }
        replaced == IF chk THEN {} ELSE hit
        changed == hit # {}
    IN  Outcome(FALSE, changed, WithSources(nb, fixed, replaced), replaced,
                { j \in replaced : fixed[j] = cs[j] }, ~chk /\ changed,
                \E j \in pairs : fixed[j] # cs[j])

\* compile_ts_cells.process_notebook after the skips: compile_cells raises
\* IndexError like lint_cells, and otherwise changed = return_code != 0.
CompileNotebook(nb, g, rc) ==
    Outcome(g > Len(code_lines(CodeTexts(nb))), rc # 0, nb, {}, {}, FALSE, FALSE)

\* The tool's outcome for a notebook with code cells cs: the formatter's
\* result per cell, or the linter's / type checker's diagnostic line (0:
\* none past the document), exit code and file content.
ToolOutcomes(scr, cs) ==
    IF scr = "format"
    THEN { [g |-> 0, rc |-> 0, text |-> <<>>, outputs |-> o] :
             o \in [1..Len(cs) -> {"same", "fixed", "fail"}] }
    ELSE IF scr = "lint"
    THEN { [g |-> g, rc |-> rc, text |-> text, outputs |-> <<>>] :
             g \in {0, Max(DiagLineNumbers)}, rc \in ExitCodes,
             text \in ToolRewrites(cs) }
    ELSE { [g |-> g, rc |-> rc, text |-> <<>>, outputs |-> <<>>] :
             g \in {0, Max(DiagLineNumbers)}, rc \in ExitCodes }

\* process_notebook of the running script on notebook nb with tool outcome t.
process_notebook(scr, nb, chk, t) ==
    IF Skipped(nb) THEN Outcome(FALSE, FALSE, nb, {}, {}, FALSE, FALSE)
    ELSE IF scr = "format" THEN FormatNotebook(nb, chk, t.outputs)
    ELSE IF scr = "compile" THEN CompileNotebook(nb, t.g, t.rc)
    ELSE LET linted == lint_cells(CodeTexts(nb), t.g, t.rc, t.text)
         IN  IF linted.crashed
             THEN Outcome(TRUE, FALSE, nb, {}, {}, FALSE, FALSE)
             ELSE LintNotebook(nb, chk, linted.fixed_cells, linted.return_code)

InitRun ==
    /\ script \in {"format", "lint", "compile"}
    /\ check \in BOOLEAN
    /\ (script = "compile" => check = FALSE)
    /\ pc = "main"
    /\ paths \in SeqsUpTo(PathArgs, MaxPaths)
    /\ fs \in FileSystems
    /\ path_idx = 1
    /\ nb_idx = 0
    /\ path_results = <<>>
    /\ results = <<>>
    /\ exit_status = -1
    /\ invalid = {}
    /\ differed = FALSE
    /\ log = <<>>
    /\ codes = <<>>
    /\ tmp_file = <<>>
    /\ global_line = 0
    /\ cell_index = 0
    /\ start_row = 0
    /\ row = 0
    /\ fixed_cells = <<>>
    /\ return_code = 0
    /\ IdleChild

AtPath == pc = "main" /\ path_idx <= Len(paths)

\* main: the path does not exist; sys.exit(1).
MainMissingPath ==
    /\ AtPath
    /\ paths[path_idx].kind = "missing"
    /\ exit_status' = 1
    /\ pc' = "exited"
    /\ UNCHANGED <<script, check, cellsVars, childVars, paths, fs, path_idx,
                   nb_idx, path_results, results, invalid, differed, log>>

\* process_path: neither a directory nor an .ipynb file; prints
\* "Invalid path" and returns False, which main appends to results.
InvalidPath ==
    /\ AtPath
    /\ paths[path_idx].kind = "other"
    /\ invalid' = invalid \cup {path_idx}
    /\ results' = Append(results, FALSE)
    /\ path_idx' = path_idx + 1
    /\ UNCHANGED <<script, check, pc, cellsVars, childVars, paths, fs, nb_idx,
                   path_results, exit_status, differed, log>>

\* process_path: a directory in which rglob finds no notebook; any([]).
EmptyDirectory ==
    /\ AtPath
    /\ paths[path_idx].kind = "dir"
    /\ paths[path_idx].files = <<>>
    /\ results' = Append(results, any(<<>>))
    /\ path_idx' = path_idx + 1
    /\ UNCHANGED <<script, check, pc, cellsVars, childVars, paths, fs, nb_idx,
                   path_results, exit_status, invalid, differed, log>>

\* process_path: process_notebook on the next notebook of the path; after
\* the last one, any(results) is appended to main's results.  An exception
\* out of process_notebook ends the process with status 1.
ProcessNotebook(t) ==
    /\ AtPath
    /\ paths[path_idx].kind \in {"notebook", "dir"}
    /\ nb_idx < Len(paths[path_idx].files)
    /\ LET name == paths[path_idx].files[nb_idx + 1]
           done == process_notebook(script, fs[name], check, t)
           last == nb_idx + 1 = Len(paths[path_idx].files)
       IN  IF done.crashed
           THEN /\ pc' = "crashed"
                /\ exit_status' = 1
                /\ UNCHANGED <<fs, path_idx, nb_idx, path_results, results,
                               differed, log>>
           ELSE /\ fs' = IF done.written THEN [fs EXCEPT ![name] = done.nb] ELSE fs
                /\ log' = IF done.replaced # {} \/ done.written
                          THEN Append(log, [file |-> name,
                                            replaced |-> done.replaced,
                                            replaced_same |-> done.replaced_same,
                                            written |-> done.written,
                                            differs |-> done.differs])
                          ELSE log
                /\ differed' = (differed \/ done.differs)
                /\ IF last
                   THEN /\ results' = Append(results,
                                         any(Append(path_results, done.changed)))
                        /\ path_idx' = path_idx + 1
                        /\ nb_idx' = 0
                        /\ path_results' = <<>>
                   ELSE /\ path_results' = Append(path_results, done.changed)
                        /\ nb_idx' = nb_idx + 1
                        /\ UNCHANGED <<results, path_idx>>
                /\ UNCHANGED <<pc, exit_status>>
    /\ UNCHANGED <<script, check, cellsVars, childVars, paths, invalid>>

\* main after the loop: sys.exit(1) if any(results), else the script ends
\* with status 0.
MainFinish ==
    /\ pc = "main"
    /\ path_idx > Len(paths)
    /\ exit_status' = (IF any(results) THEN 1 ELSE 0)
    /\ pc' = "exited"
    /\ UNCHANGED <<script, check, cellsVars, childVars, paths, fs, path_idx,
                   nb_idx, path_results, results, invalid, differed, log>>

NextRun ==
    \/ MainMissingPath
    \/ InvalidPath
    \/ EmptyDirectory
    \/ \E t \in ToolOutcomes(script,
                  IF AtPath /\ paths[path_idx].kind \in {"notebook", "dir"}
                     /\ nb_idx < Len(paths[path_idx].files)
                     /\ ~Skipped(fs[paths[path_idx].files[nb_idx + 1]])
                  THEN CodeTexts(fs[paths[path_idx].files[nb_idx + 1]])
                  ELSE <<>>) : ProcessNotebook(t)
    \/ MainFinish

SpecRun == InitRun /\ [][NextRun]_vars

(***************************************************************************)
(* Properties of the driver                                                *)
(***************************************************************************)
AllPathsExist == \A n \in 1..Len(paths) : paths[n].kind # "missing"

\* C3: in check mode the format and lint scripts never replace a cell's
\* source and never write a notebook file, whatever the tool returns.
C3_CheckModeNeverMutates ==
    /\ [](check => log = <<>>)
    /\ [][check => fs' = fs]_vars

\* Witness of C3: a check-mode run of the linter that found a cell differing
\* from the tool's output, with a non-zero tool exit code, and finished.
C3_Witness ==
    /\ script = "lint"
    /\ check
    /\ differed
    /\ pc = "exited"
    /\ exit_status = 1
    /\ log = <<>>

\* C4: with all paths existing, the script exits non-zero exactly when some
\* processed notebook was changed (normal mode) or, in check mode, has a
\* code cell whose tool output differs from its stored text; otherwise it
\* exits with status 0.  Stated for the format script, whose process_notebook
\* and main the claim cites; --check on one misformatted cell is the case
\* check /\ differed.
C4_ExitStatusReportsChange ==
    (pc = "exited" /\ AllPathsExist /\ script = "format") =>
        /\ exit_status \in {0, 1}
        /\ exit_status = 1 <=>
              IF check THEN differed
              ELSE \E n \in 1..Len(log) : log[n].written

\* C6: in normal mode a cell's source is replaced only if the tool's text
\* for it differs from the original, and the file is written only if some
\* cell's text differed, whatever the tool's exit code.
C6_RewriteOnlyWhenDifferent ==
    ~check =>
        \A n \in 1..Len(log) :
            /\ log[n].replaced_same = {}
            /\ log[n].written => log[n].differs

\* C7: once the run has ended, every path that exists but is neither a
\* directory nor an .ipynb file and that the driver reached has been
\* reported as invalid, and the exit status is 1.
C7_InvalidPathFails ==
    exit_status # -1 =>
        \A n \in 1..Len(paths) :
            (n < path_idx /\ paths[n].kind = "other") =>
                (n \in invalid /\ exit_status = 1)

====
